---- MODULE Spec2Model ----
(***************************************************************************)
(* A model of dumpsc.py: the positional Reader, the top-level per-file     *)
(* loop, process_sc's chunk walk over the decompressed inner stream, the   *)
(* pixel decoder's accept/reject behaviour and the 32x32 block deswizzle.  *)
(* Streams are byte sequences; every read is modelled as io.BytesIO does   *)
(* it (a short read returns fewer bytes and raises nothing).               *)
(***************************************************************************)
EXTENDS Integers, Sequences, FiniteSets, TLC

\* ------------------------------------------------------------ bounds
\* chunks in a generated inner stream
MaxChunks == 2
\* input files on the command line
MaxFiles == 2
\* bytes cut from the end of a generated inner stream
MaxCut == 2
\* largest image side the deswizzle loops are run on
MaxDim == 33
\* TLC's integers have 32 bits where Python's have no bound: a number of
\* Huge or more is carried as Huge.  Huge exceeds the length of every stream
\* of the model, so a read of Huge bytes reads to the end and leaves
\* _bytes_left negative, as a read of the number itself does.
Huge == 16777216

\* ------------------------------------------------------------ helpers
Min(a, b) == IF a < b THEN a ELSE b

Max(a, b) == IF a > b THEN a ELSE b

Fill(n, v) == [i \in 1..n |-> v]

\* a * b of natural numbers
Times(a, b) ==
    IF a = 0 \/ b = 0 THEN 0
    ELSE IF a >= Huge \/ b >= Huge \/ a > Huge \div b THEN Huge
    ELSE a * b

RECURSIVE Concat(_)
Concat(ss) == IF ss = <<>> THEN <<>> ELSE Head(ss) \o Concat(Tail(ss))

\* int.from_bytes(bs, "little"): the empty string is 0, a short string is the
\* number its bytes spell
RECURSIVE IntFromBytes(_)
IntFromBytes(bs) ==
    IF bs = <<>> THEN 0
    ELSE LET rest == IntFromBytes(Tail(bs))
         IN  IF rest >= Huge \div 256 THEN Huge ELSE Head(bs) + 256 * rest

\* int.from_bytes(bs, "big")
RECURSIVE IntFromBytesBE(_)
IntFromBytesBE(bs) ==
    IF bs = <<>> THEN 0
    ELSE LET rest == IntFromBytesBE(SubSeq(bs, 1, Len(bs) - 1))
         IN  IF rest >= Huge \div 256 THEN Huge ELSE bs[Len(bs)] + 256 * rest

\* ------------------------------------------------------------ Reader
\* A Reader is [pos, left, nread]: the BytesIO position, _bytes_left and
\* _bytes_read.  The bytes it reads are passed beside it.
NewReader(stream) == [pos |-> 0, left |-> Len(stream), nread |-> 0]

\* Reader.__len__ without its clamp at zero
ReaderLenNoClamp(r) == r.left

\* Reader.__len__
ReaderLen(r) == IF r.left < 0 THEN 0 ELSE r.left

\* io.BytesIO.read(size): a negative size reads to the end, any other size
\* reads at most that many bytes; asking for too many is no error
BytesIORead(data, pos, size) ==
    IF size < 0 THEN SubSeq(data, pos + 1, Len(data))
    ELSE SubSeq(data, pos + 1, Min(pos + size, Len(data)))

\* Reader.read taking size off _bytes_left twice
BytesLeftAfterDrift(left, size) == IF size = -1 THEN 0 ELSE left - 2 * size

\* Reader.read leaving _bytes_left as it is
BytesLeftAfterStuck(left, size) == IF size = -1 THEN 0 ELSE left

\* _bytes_left after Reader.read(size)
BytesLeftAfter(left, size) == IF size = -1 THEN 0 ELSE left - size

\* _bytes_read after Reader.read(size)
BytesReadAfter(r, size) ==
    IF size = -1 THEN r.nread + r.left ELSE r.nread + size

\* Reader.read(size): the new Reader and the bytes returned
Read(r, data, size) ==
    LET out == BytesIORead(data, r.pos, size)
    IN  [r   |-> [pos   |-> r.pos + Len(out),
                  left  |-> BytesLeftAfter(r.left, size),
                  nread |-> BytesReadAfter(r, size)],
         out |-> out]

\* read_byte, read_uint16, read_uint32 (little-endian): the Reader and the value
ReadUInt(r, data, n) ==
    LET x == Read(r, data, n) IN [r |-> x.r, v |-> IntFromBytes(x.out)]

ReadByte(r, data) == ReadUInt(r, data, 1)

ReadUInt16(r, data) == ReadUInt(r, data, 2)

ReadUInt32(r, data) == ReadUInt(r, data, 4)

\* read_uint32(byteorder="big")
ReadUInt32BE(r, data) ==
    LET x == Read(r, data, 4) IN [r |-> x.r, v |-> IntFromBytesBE(x.out)]

\* bytes.decode("utf-8"): ASCII always decodes; other byte strings may or may
\* not be valid UTF-8, so both outcomes are possible
DecodeOutcomes(bs) ==
    IF \A i \in 1..Len(bs) : bs[i] < 128 THEN {"ok"} ELSE {"ok", "raise"}

\* read_string: a length byte, then that many bytes, decoded
ReadString(r, data) ==
    LET n == ReadByte(r, data)
        s == Read(n.r, data, n.v)
    IN  [r |-> s.r, s |-> s.out]

\* ------------------------------------------------------------ decompress
\* What the external decompressor makes of a payload is carried beside the
\* payload: plain is the decompressed stream, or <<-1>> when the library
\* rejects the payload.
Rejected == <<-1>>

SCLZ == <<83, 67, 76, 90>>

ZstdMagic == <<40, 181, 47, 253>>

\* decompress(data): "raise" or the decompressed bytes.  Only the LZMA branch
\* looks at data[0] (an IndexError on an empty payload) and checks the
\* properties byte against (4 * 5 + 4) * 9 + 8.
LzmaPropsMax == (4 * 5 + 4) * 9 + 8

Decompress(data, plain) ==
    IF SubSeq(data, 1, Min(4, Len(data))) \in {SCLZ, ZstdMagic}
    THEN plain
    ELSE IF data = <<>> \/ data[1] > LzmaPropsMax THEN Rejected ELSE plain

\* ------------------------------------------------------------ pixel decoder
KnownSubTypes == {0, 1, 2, 3, 4, 6, 10}

\* pixel_size(sub_type); -1 stands for the exception of the else branch
PixelSize(sub_type) ==
    IF sub_type \in {0, 1} THEN 4
    ELSE IF sub_type \in {2, 3, 4, 6} THEN 2
    ELSE IF sub_type \in {10} THEN 1
    ELSE -1

\* The sub-types create_image decodes with its own per-pixel loops.  The loops
\* slice the buffer (pixels[i : i + 2]) and never look at its length.
LoopSubTypes == {2, 4}

\* create_image(width, height, pixels, sub_type) followed by img.save: the set
\* of possible outcomes, "saved" or "raise", given the buffer's length n.
\* Image.frombytes raises on a buffer shorter than the image; what it makes of
\* a longer buffer, and what Image.frombytes and img.save make of an image
\* with a zero side, is the imaging library's business: both outcomes.
CreateImage(width, height, n, sub_type) ==
    IF sub_type \notin KnownSubTypes THEN {"raise"}
    ELSE IF width = 0 \/ height = 0 THEN {"saved", "raise"}
    ELSE IF sub_type \in LoopSubTypes THEN {"saved"}
    ELSE IF n < Times(Times(width, height), PixelSize(sub_type)) THEN {"raise"}
    ELSE IF n = Times(Times(width, height), PixelSize(sub_type)) THEN {"saved"}
    ELSE {"saved", "raise"}

\* ------------------------------------------------------------ deswizzle
BlockSz == 32

\* pixels[i : i + sz] = d on a bytearray: the slice is clipped to the buffer,
\* and a d of another length than the slice changes the buffer's length
SliceAssign(p, i, sz, d) ==
    LET lo == Min(i, Len(p))
        hi == Min(i + sz, Len(p))
    IN  SubSeq(p, 1, lo) \o d \o SubSeq(p, hi + 1, Len(p))

\* the row stride taken for the block size
RunOffsetBlockStride(bw, h, width, pixel_sz) == (bw + h * BlockSz) * pixel_sz

\* i = (_w + h * width) * pixel_sz
RunOffset(bw, h, width, pixel_sz) == (bw + h * width) * pixel_sz

\* sz = min(block_sz, width - _w) * pixel_sz
RunSize(bw, width, pixel_sz) == Min(BlockSz, width - bw) * pixel_sz

\* The three nested loops of the tag-27/28 branch; s is the Reader and the
\* pixel buffer, [r, pixels], and g is [width, height, pixel_sz].  (Each loop
\* tests s.r.pos, which is never negative, so that s is evaluated before the
\* next iteration rather than all at once at the end.)
\* for h in range(_h, min(_h + block_sz, height)), from row h on
RECURSIVE DeswizzleRows(_, _, _, _, _, _)
DeswizzleRows(s, data, g, bh, bw, h) ==
    IF s.r.pos < 0 \/ h >= Min(bh + BlockSz, g.height) THEN s
    ELSE LET i  == RunOffset(bw, h, g.width, g.pixel_sz)
             sz == RunSize(bw, g.width, g.pixel_sz)
             x  == Read(s.r, data, sz)
         IN  DeswizzleRows([r |-> x.r, pixels |-> SliceAssign(s.pixels, i, sz, x.out)],
                           data, g, bh, bw, h + 1)

\* for _w in range(0, width, block_sz), from block column bw on
RECURSIVE DeswizzleCols(_, _, _, _, _)
DeswizzleCols(s, data, g, bh, bw) ==
    IF s.r.pos < 0 \/ bw >= g.width THEN s
    ELSE DeswizzleCols(DeswizzleRows(s, data, g, bh, bw, bh), data, g, bh,
                       bw + BlockSz)

\* for _h in range(0, height, block_sz), from block row bh on
RECURSIVE DeswizzleBlocks(_, _, _, _)
DeswizzleBlocks(s, data, g, bh) ==
    IF s.r.pos < 0 \/ bh >= g.height THEN s
    ELSE DeswizzleBlocks(DeswizzleCols(s, data, g, bh, 0), data, g, bh + BlockSz)

\* pixels = bytearray(n), then the loops
Deswizzle(r, data, n, width, height, pixel_sz) ==
    DeswizzleBlocks([r |-> r, pixels |-> Fill(n, 0)], data,
                    [width |-> width, height |-> height, pixel_sz |-> pixel_sz],
                    0)

\* ------------------------------------------------------------ KTX, SCTX
Ktx11Mark == <<75, 84, 88, 32, 49, 49>>

Ktx20Mark == <<75, 84, 88, 32, 50, 48>>

\* b"KTX 11" in identifier
Contains(bs, mark) ==
    \E i \in 1..Len(bs) : SubSeq(bs, i, Min(i + Len(mark) - 1, Len(bs))) = mark

KtxFormats == {157, 165, 171, 172, 36196, 37808, 37812}

\* process_ktx(base_name, data, path): the possible outcomes.  An unknown
\* identifier or format raises.  process_ktx11 reads the format after 16
\* bytes, process_ktx20 reads it first; nothing they read in between changes
\* the format.  A known format goes to the texture decoder, the imaging
\* library and the file system, which may accept or reject the payload.
ProcessKtx(data) ==
    LET id   == Read(NewReader(data), data, 12)
        skip == IF Contains(id.out, Ktx11Mark) THEN 16 ELSE 0
        fmt  == ReadUInt32(Read(id.r, data, skip).r, data).v
    IN  IF ~Contains(id.out, Ktx11Mark) /\ ~Contains(id.out, Ktx20Mark)
        THEN {"raise"}
        ELSE IF fmt \in KtxFormats THEN {"saved", "raise"} ELSE {"raise"}

\* process_sctx(base_name, data, path): file_type is the u32 after 52 bytes
\* and two u16; any kind but 12 and 5 raises, and these go to the external
\* decoders.
ProcessSctx(data) ==
    LET r0 == Read(NewReader(data), data, 52).r
        r1 == ReadUInt16(ReadUInt16(r0, data).r, data).r
        ft == ReadUInt32(r1, data).v
    IN  IF ft \in {12, 5} THEN {"saved", "raise"} ELSE {"raise"}

\* ------------------------------------------------------------ input files
\* The byte layouts the parsers below read, used to build the inputs.
U16LE(n) == <<n % 256, (n \div 256) % 256>>

U32LE(n) ==
    <<n % 256, (n \div 256) % 256, (n \div 65536) % 256, (n \div 16777216) % 256>>

U32BE(n) ==
    <<(n \div 16777216) % 256, (n \div 65536) % 256, (n \div 256) % 256, n % 256>>

\* {tag: u8, size: u32_le, body}
Chunk(tag, size, body) == <<tag>> \o U32LE(size) \o body

\* an inline texture chunk: sub_type, width, height, pixels
Texture(tag, size, sub_type, width, height, px) ==
    Chunk(tag, size, <<sub_type>> \o U16LE(width) \o U16LE(height) \o px)

KtxIdentifier(mark) == <<171>> \o mark \o <<187, 13, 10, 26, 10>>

\* a KTX 11 file of one payload byte, as process_ktx11 reads it
Ktx11Blob(fmt) ==
    KtxIdentifier(Ktx11Mark) \o Fill(16, 0) \o U32LE(fmt) \o Fill(4, 0)
        \o U32LE(4) \o U32LE(4) \o Fill(16, 0) \o U32LE(0) \o Fill(4, 0) \o <<7>>

\* a KTX 20 file cut after its format field
Ktx20Blob(fmt) == KtxIdentifier(Ktx20Mark) \o U32LE(fmt)

\* a tag-45 chunk: the second size, the five texture header bytes, the blob
KtxChunk(blob) ==
    Chunk(45, 9 + Len(blob),
          U32LE(Len(blob)) \o <<0>> \o U16LE(4) \o U16LE(4) \o blob)

\* a tag-47 chunk: the file name "a", then the five texture header bytes
SctxRefChunk == Chunk(47, 7, <<1, 97, 0>> \o U16LE(4) \o U16LE(4))

\* chunks laid out as their tag's branch of the walk reads them
GoodChunks ==
    { Chunk(1, 0, <<>>),
      Chunk(99, 3, <<120, 121, 122>>),
      Chunk(8, 24, Fill(24, 0)),
      Chunk(12, 2, <<5, 6>>),
      Chunk(49, 1, <<9>>),
      Texture(1, 9, 0, 1, 1, <<255, 0, 0, 255>>),
      Texture(24, 7, 4, 1, 1, <<31, 0>>),
      Texture(27, 9, 2, 2, 1, <<1, 2, 3, 4>>),
      Texture(28, 7, 10, 1, 2, <<1, 2>>),
      KtxChunk(Ktx11Blob(157)),
      SctxRefChunk }

\* chunks whose size, sub_type or pixel buffer does not fit their tag
OddChunks ==
    { Texture(1, 6, 2, 1, 1, <<1>>),
      Texture(24, 9, 4, 1, 1, <<1, 2, 3, 4>>),
      Texture(1, 7, 10, 1, 1, <<1, 2>>),
      Texture(1, 6, 6, 1, 1, <<1>>),
      Texture(24, 6, 5, 1, 1, <<1>>),
      Texture(28, 6, 7, 1, 1, <<1>>),
      Texture(28, 9, 2, 1, 1, <<1, 2, 3, 4>>),
      Texture(27, 6, 10, 2, 1, <<1, 2>>),
      Chunk(27, 3, <<10, 1, 0>>),
      Chunk(1, 4, <<2, 1, 0, 1>>),
      Chunk(24, 3, <<2, 1, 0>>),
      Chunk(8, 2, <<1, 2>>),
      KtxChunk(Ktx11Blob(1)),
      KtxChunk(Ktx20Blob(157)),
      KtxChunk(<<1, 2, 3>>) }

ChunkSet == GoodChunks \cup OddChunks

\* the inner streams: up to MaxChunks chunks, at most one of them odd
ChunkSeqs ==
    UNION { { cs \in [1..n -> ChunkSet] :
                Cardinality({i \in 1..n : cs[i] \in OddChunks}) <= 1 } :
            n \in 0..MaxChunks }

\* the old dictionary: 17 bytes, a count of one, 2 bytes, one string "a"
Prologue == Fill(17, 0) \o U16LE(1) \o <<0, 0>> \o <<1, 97>>

\* the outer SC envelope: magic, version 1.0, a 16-byte hash, the payload
ScEnvelope(payload) ==
    <<83, 67>> \o U32BE(1) \o U32BE(0) \o U32BE(16) \o Fill(16, 0) \o payload

\* an LZMA payload: a properties byte, a dictionary size, a 32-bit size
LzmaPayload(prop) == <<prop, 0, 0, 4, 0>> \o U32LE(1)

\* A file is its bytes (data), what the decompressor makes of its payload
\* (plain), and, for the record, the chunks plain was built from and the
\* number of bytes cut from its end.
ScFile(chunks, cut, isOld) ==
    LET body == Concat(chunks)
        pre  == IF isOld THEN Prologue ELSE <<>>
        keep == Len(body) - Min(cut, Len(body))
    IN  [data   |-> ScEnvelope(LzmaPayload(93)),
         plain  |-> pre \o SubSeq(body, 1, keep),
         chunks |-> chunks,
         cut    |-> Min(cut, Len(body))]

OtherFile(data, plain) ==
    [data |-> data, plain |-> plain, chunks |-> <<>>, cut |-> 0]

SigPrefix == <<83, 105, 103, 58>> \o Fill(64, 0)

SctxData(kind) == Fill(8, 0) \o <<83, 67, 84, 88>> \o Fill(44, 0) \o U32LE(kind)

\* the files that may follow or precede one another on a command line
SmallFiles(isOld) ==
    { OtherFile(LzmaPayload(93), <<97>>),
      OtherFile(LzmaPayload(93), Rejected),
      OtherFile(SigPrefix \o LzmaPayload(93), <<97>>),
      OtherFile(SigPrefix \o LzmaPayload(225), <<97>>),
      OtherFile(<<0, 1>>, <<>>),
      OtherFile(<<>>, <<>>),
      OtherFile(Ktx11Blob(157), <<>>),
      OtherFile(SctxData(12), <<>>),
      OtherFile(SctxData(7), <<>>),
      [ScFile(<<>>, 0, isOld) EXCEPT !.plain = Rejected],
      ScFile(<<Texture(1, 9, 0, 1, 1, <<255, 0, 0, 255>>)>>, 0, isOld),
      ScFile(<<Texture(24, 6, 5, 1, 1, <<1>>)>>, 0, isOld) }

\* the command lines: one SC file with any of the inner streams, or up to
\* MaxFiles of the small files
FileLists(isOld) ==
    { <<ScFile(cs, cut, isOld)>> : cs \in ChunkSeqs, cut \in 0..MaxCut }
        \cup UNION { [1..n -> SmallFiles(isOld)] : n \in 1..MaxFiles }

\* ------------------------------------------------------------ state
VARIABLES
    files,      \* args.files, each with what its payload decompresses to
    old,        \* args.old
    fileIdx,    \* the file the top-level loop is at, from 1
    pc,         \* "start": before parse_args; "loop": between files; "walk":
                \* at the head of process_sc's while loop; "exit": the
                \* process has ended
    exitCode,   \* -1 while running, 0 at a normal end, 1 after a traceback
    failure,    \* the exception that ended the process, or "none"
    inner,      \* the decompressed stream process_sc walks
    rd,         \* the Reader over inner
    count,      \* process_sc's count, the next output index
    saved,      \* the files written so far
    errors,     \* the tags logging.error reported
    ktxIn,      \* the slices of inner handed to process_ktx
    sw          \* the deswizzle under test (see SwSpec)

vars == <<files, old, fileIdx, pc, exitCode, failure, inner, rd, count, saved,
          errors, ktxIn, sw>>

SwOff == [pc |-> "off", width |-> 0, height |-> 0, pixel_sz |-> 0,
          input |-> <<>>, pixels |-> <<>>, nread |-> 0]

Init ==
    /\ old = FALSE
    /\ files = <<>>
    /\ fileIdx = 1
    /\ pc = "start"
    /\ exitCode = -1
    /\ failure = "none"
    /\ inner = <<>>
    /\ rd = NewReader(<<>>)
    /\ count = 0
    /\ saved = <<>>
    /\ errors = <<>>
    /\ ktxIn = <<>>
    /\ sw = SwOff

\* An exception nobody catches: the lines 424-442 hold no try, so the
\* interpreter prints the traceback and exits with status 1.
Raise(kind) ==
    /\ pc' = "exit"
    /\ exitCode' = 1
    /\ failure' = kind

\* the loop goes on to the next file
NextFile ==
    /\ fileIdx' = fileIdx + 1
    /\ pc' = "loop"
    /\ UNCHANGED <<exitCode, failure>>

\* ------------------------------------------------------------ top level
\* check_header(data); "raise" for the IndexError of data[0] on an empty file
\* and for the final raise
CheckHeader(data) ==
    IF data = <<>> THEN "raise"
    ELSE IF data[1] = 93 THEN "csv"
    ELSE IF SubSeq(data, 1, Min(2, Len(data))) = <<83, 67>> THEN "sc"
    ELSE IF SubSeq(data, 1, Min(4, Len(data))) = <<83, 105, 103, 58>> THEN "sig:"
    ELSE IF SubSeq(data, 1, Min(5, Len(data))) = <<171, 75, 84, 88, 32>> THEN "ktx"
    ELSE IF SubSeq(data, 9, Min(12, Len(data))) = <<83, 67, 84, 88>> THEN "sctx"
    ELSE "raise"

\* args = parser.parse_args(): the command line is any of FileLists, with
\* or without --old
ParseArgs ==
    /\ pc = "start"
    /\ old' \in BOOLEAN
    /\ files' \in FileLists(old')
    /\ pc' = "loop"
    /\ UNCHANGED <<fileIdx, exitCode, failure, inner, rd, count, saved, errors,
                   ktxIn, sw>>

AtFile == pc = "loop" /\ fileIdx <= Len(files)

\* check_header raises
HeaderFails ==
    /\ AtFile
    /\ CheckHeader(files[fileIdx].data) = "raise"
    /\ Raise("header")
    /\ UNCHANGED <<files, old, fileIdx, inner, rd, count, saved, errors, ktxIn, sw>>

\* process_csv on the file, or on data[68:] of a signed file
ProcessCsv ==
    /\ AtFile
    /\ CheckHeader(files[fileIdx].data) \in {"csv", "sig:"}
    /\ LET f    == files[fileIdx]
           data == IF CheckHeader(f.data) = "csv" THEN f.data
                   ELSE SubSeq(f.data, 69, Len(f.data))
       IN  IF Decompress(data, f.plain) = Rejected
           THEN Raise("decompress") /\ UNCHANGED <<fileIdx, saved>>
           ELSE /\ saved' = Append(saved, [file |-> fileIdx, kind |-> "raw", idx |-> -1])
                /\ NextFile
    /\ UNCHANGED <<files, old, inner, rd, count, errors, ktxIn, sw>>

\* process_ktx on a standalone file
ProcessKtxFile ==
    /\ AtFile
    /\ CheckHeader(files[fileIdx].data) = "ktx"
    /\ \E o \in ProcessKtx(files[fileIdx].data) :
          IF o = "raise"
          THEN Raise("ktx") /\ UNCHANGED <<fileIdx, saved>>
          ELSE /\ saved' = Append(saved, [file |-> fileIdx, kind |-> "plain", idx |-> -1])
               /\ NextFile
    /\ UNCHANGED <<files, old, inner, rd, count, errors, ktxIn, sw>>

\* process_sctx on a standalone file
ProcessSctxFile ==
    /\ AtFile
    /\ CheckHeader(files[fileIdx].data) = "sctx"
    /\ \E o \in ProcessSctx(files[fileIdx].data) :
          IF o = "raise"
          THEN Raise("sctx") /\ UNCHANGED <<fileIdx, saved>>
          ELSE /\ saved' = Append(saved, [file |-> fileIdx, kind |-> "plain", idx |-> -1])
               /\ NextFile
    /\ UNCHANGED <<files, old, inner, rd, count, errors, ktxIn, sw>>

\* for i in range(count): reader.read_string(); ok is FALSE when a string
\* may fail to decode
RECURSIVE SkipStrings(_, _, _)
SkipStrings(r, data, n) ==
    IF n = 0 THEN [r |-> r, ok |-> TRUE]
    ELSE LET s    == ReadString(r, data)
             rest == SkipStrings(s.r, data, n - 1)
         IN  [r |-> rest.r, ok |-> rest.ok /\ DecodeOutcomes(s.s) = {"ok"}]

\* the old dictionary of process_sc: 17 bytes, a count, 2 bytes for each
\* entry, then the strings
SkipOldDictionary(r, data) ==
    LET r1 == Read(r, data, 17).r
        n  == ReadUInt16(r1, data)
        r2 == Read(n.r, data, n.v * 2).r
    IN  SkipStrings(r2, data, n.v)

\* the payload of an SC file: what follows the magic, the three big-endian
\* words and the hash
ScPayload(data) ==
    LET r0 == Read(NewReader(data), data, 2).r
        r1 == ReadUInt32BE(ReadUInt32BE(r0, data).r, data).r
        hl == ReadUInt32BE(r1, data)
        r2 == Read(hl.r, data, hl.v).r
    IN  Read(r2, data, -1).out

\* process_sc up to its while loop: the envelope, decompress, the Reader over
\* the decompressed stream, the old dictionary, count = 0
ProcessSc ==
    /\ AtFile
    /\ CheckHeader(files[fileIdx].data) = "sc"
    /\ LET f == files[fileIdx]
           d == Decompress(ScPayload(f.data), f.plain)
           p == IF old THEN SkipOldDictionary(NewReader(d), d)
                ELSE [r |-> NewReader(d), ok |-> TRUE]
       IN  IF d = Rejected
           THEN Raise("decompress") /\ UNCHANGED <<inner, rd, count>>
           ELSE \E o \in (IF p.ok THEN {"ok"} ELSE {"ok", "raise"}) :
                  IF o = "raise"
                  THEN Raise("decode") /\ UNCHANGED <<inner, rd, count>>
                  ELSE /\ inner' = d
                       /\ rd' = p.r
                       /\ count' = 0
                       /\ pc' = "walk"
                       /\ UNCHANGED <<exitCode, failure>>
    /\ UNCHANGED <<files, old, fileIdx, saved, errors, ktxIn, sw>>

\* the for loop is through: the script ends
Finish ==
    /\ pc = "loop"
    /\ fileIdx > Len(files)
    /\ pc' = "exit"
    /\ exitCode' = 0
    /\ UNCHANGED <<files, old, fileIdx, failure, inner, rd, count, saved, errors,
                   ktxIn, sw>>

\* ------------------------------------------------------------ chunk walk
KnownTags == {1, 8, 12, 24, 27, 28, 45, 47, 49}

\* file_type = reader.read_byte(); file_size = reader.read_uint32()
ChunkHeader(r, data) ==
    LET t == ReadByte(r, data)
        s == ReadUInt32(t.r, data)
    IN  [tag |-> t.v, size |-> s.v, r |-> s.r]

\* sub_type = reader.read_byte(); width, height = reader.read_uint16()
TextureHeader(r, data) ==
    LET st == ReadByte(r, data)
        w  == ReadUInt16(st.r, data)
        h  == ReadUInt16(w.r, data)
    IN  [sub_type |-> st.v, width |-> w.v, height |-> h.v, r |-> h.r]

Hd == ChunkHeader(rd, inner)

\* while len(reader): the loop is entered
Walking == pc = "walk" /\ ReaderLen(rd) > 0

\* while len(reader): the loop is left and process_sc returns
WalkReturn ==
    /\ pc = "walk"
    /\ ReaderLen(rd) = 0
    /\ NextFile
    /\ UNCHANGED <<files, old, inner, rd, count, saved, errors, ktxIn, sw>>

\* if file_size == 0: continue
Sentinel ==
    /\ Walking
    /\ Hd.size = 0
    /\ rd' = Hd.r
    /\ UNCHANGED <<files, old, fileIdx, pc, exitCode, failure, inner, count,
                   saved, errors, ktxIn, sw>>

\* an unknown tag whose body is not read
UnknownTagNoSkip ==
    /\ pc = "walk" /\ ReaderLen(rd) > 0
    /\ ChunkHeader(rd, inner).size # 0
    /\ ChunkHeader(rd, inner).tag \notin KnownTags
    /\ errors' = Append(errors, ChunkHeader(rd, inner).tag)
    /\ rd' = ChunkHeader(rd, inner).r
    /\ UNCHANGED <<files, old, fileIdx, pc, exitCode, failure, inner, count,
                   saved, ktxIn, sw>>

\* a tag outside the list: logging.error, read(file_size), continue
UnknownTag ==
    /\ Walking
    /\ Hd.size # 0
    /\ Hd.tag \notin KnownTags
    /\ errors' = Append(errors, Hd.tag)
    /\ rd' = Read(Hd.r, inner, Hd.size).r
    /\ UNCHANGED <<files, old, fileIdx, pc, exitCode, failure, inner, count,
                   saved, ktxIn, sw>>

\* matrix = [reader.read_int32() for _ in range(6)]
RECURSIVE ReadInts(_, _, _)
ReadInts(r, data, n) ==
    IF n = 0 THEN r ELSE ReadInts(Read(r, data, 4).r, data, n - 1)

\* tag 8: six int32, whatever file_size says
Matrix ==
    /\ Walking
    /\ Hd.size # 0
    /\ Hd.tag = 8
    /\ rd' = ReadInts(Hd.r, inner, 6)
    /\ UNCHANGED <<files, old, fileIdx, pc, exitCode, failure, inner, count,
                   saved, errors, ktxIn, sw>>

\* tags 12 and 49: read(file_size), continue
Opaque ==
    /\ Walking
    /\ Hd.size # 0
    /\ Hd.tag \in {12, 49}
    /\ rd' = Read(Hd.r, inner, Hd.size).r
    /\ UNCHANGED <<files, old, fileIdx, pc, exitCode, failure, inner, count,
                   saved, errors, ktxIn, sw>>

\* tag 45: file_size = read_uint32(), the texture header, then
\* process_ktx(base_name, reader.read(), path)
KtxPayload ==
    /\ Walking
    /\ Hd.size # 0
    /\ Hd.tag = 45
    /\ LET sz   == ReadUInt32(Hd.r, inner)
           th   == TextureHeader(sz.r, inner)
           blob == Read(th.r, inner, -1)
       IN  /\ rd' = blob.r
           /\ ktxIn' = Append(ktxIn, [from |-> th.r.pos, bytes |-> Len(blob.out),
                                      declared |-> sz.v])
           /\ \E o \in ProcessKtx(blob.out) :
                 IF o = "raise"
                 THEN Raise("ktx") /\ UNCHANGED saved
                 ELSE /\ saved' = Append(saved, [file |-> fileIdx, kind |-> "plain",
                                                 idx |-> -1])
                      /\ UNCHANGED <<pc, exitCode, failure>>
    /\ UNCHANGED <<files, old, fileIdx, inner, count, errors, sw>>

\* tag 47: file_name = read_string(), the texture header, then
\* process_file_type_47 on the sibling file, which the file system and the
\* texture decoder may accept or reject
SctxReference ==
    /\ Walking
    /\ Hd.size # 0
    /\ Hd.tag = 47
    /\ LET nm == ReadString(Hd.r, inner)
           th == TextureHeader(nm.r, inner)
       IN  /\ rd' = th.r
           /\ \E o \in {"saved", "raise"} :
                 IF o = "raise" \/ DecodeOutcomes(nm.s) # {"ok"}
                 THEN Raise("sctx") /\ UNCHANGED saved
                 ELSE /\ saved' = Append(saved, [file |-> fileIdx, kind |-> "sibling",
                                                 idx |-> -1])
                      /\ UNCHANGED <<pc, exitCode, failure>>
    /\ UNCHANGED <<files, old, fileIdx, inner, count, errors, ktxIn, sw>>

\* the save without count += 1
SaveOrRaiseNoIncrement(outcomes, sub_type) ==
    \E o \in outcomes :
       IF o = "raise"
       THEN /\ pc' = "exit" /\ exitCode' = 1
            /\ failure' = (IF sub_type \in KnownSubTypes THEN "pixels" ELSE "subtype")
            /\ UNCHANGED <<saved, count>>
       ELSE /\ saved' = Append(saved, [file |-> fileIdx, kind |-> "indexed",
                                       idx |-> count])
            /\ count' = count
            /\ UNCHANGED <<pc, exitCode, failure>>

\* img.save(f"{base_name}_{count}.png"); count += 1, or the exception of
\* create_image
SaveOrRaise(outcomes, sub_type) ==
    \E o \in outcomes :
       IF o = "raise"
       THEN /\ Raise(IF sub_type \in KnownSubTypes THEN "pixels" ELSE "subtype")
            /\ UNCHANGED <<saved, count>>
       ELSE /\ saved' = Append(saved, [file |-> fileIdx, kind |-> "indexed",
                                       idx |-> count])
            /\ count' = count + 1
            /\ UNCHANGED <<pc, exitCode, failure>>

\* tags 1 and 24: pixels = reader.read(file_size - 5), create_image, save
Inline ==
    /\ Walking
    /\ Hd.size # 0
    /\ Hd.tag \in {1, 24}
    /\ LET th == TextureHeader(Hd.r, inner)
           px == Read(th.r, inner, Hd.size - 5)
       IN  /\ rd' = px.r
           /\ SaveOrRaise(CreateImage(th.width, th.height, Len(px.out), th.sub_type),
                          th.sub_type)
    /\ UNCHANGED <<files, old, fileIdx, inner, errors, ktxIn, sw>>

\* The loops are run on images of up to MaxDim a side; on a larger one the
\* Reader ends where the loops leave it (they read width * height * pixel_sz
\* bytes in all) and the length of the buffer, and with it create_image's
\* outcome, is left open.
SmallImage(n, width, height) ==
    width <= MaxDim /\ height <= MaxDim /\ n <= 4 * MaxDim * MaxDim

\* tags 27 and 28: pixel_size, bytearray(file_size - 5), the block loops,
\* create_image, save
Swizzled ==
    /\ Walking
    /\ Hd.size # 0
    /\ Hd.tag \in {27, 28}
    /\ LET th == TextureHeader(Hd.r, inner)
           bp == PixelSize(th.sub_type)
           n  == Hd.size - 5
           d  == Deswizzle(th.r, inner, n, th.width, th.height, bp)
       IN  IF bp = -1
           THEN rd' = th.r /\ Raise("subtype") /\ UNCHANGED <<saved, count>>
           ELSE IF n < 0
           THEN rd' = th.r /\ Raise("negative") /\ UNCHANGED <<saved, count>>
           ELSE IF SmallImage(n, th.width, th.height)
           THEN /\ rd' = d.r
                /\ SaveOrRaise(CreateImage(th.width, th.height, Len(d.pixels),
                                           th.sub_type), th.sub_type)
           ELSE /\ rd' = Read(th.r, inner, Times(Times(th.width, th.height), bp)).r
                /\ SaveOrRaise({"saved", "raise"}, th.sub_type)
    /\ UNCHANGED <<files, old, fileIdx, inner, errors, ktxIn, sw>>

Next ==
    \/ ParseArgs
    \/ HeaderFails
    \/ ProcessCsv
    \/ ProcessKtxFile
    \/ ProcessSctxFile
    \/ ProcessSc
    \/ Finish
    \/ WalkReturn
    \/ Sentinel
    \/ UnknownTag
    \/ Matrix
    \/ Opaque
    \/ KtxPayload
    \/ SctxReference
    \/ Inline
    \/ Swizzled

Spec == Init /\ [][Next]_vars

\* ------------------------------------------------------------ deswizzle alone
\* The block loops of the tag-27/28 branch on a buffer of exactly
\* width * height * pixel_sz bytes, byte k of the input holding the number k.
SwDims ==
    {d \in 1..MaxDim : d <= 2 \/ d >= BlockSz - 1} \cup {2 * BlockSz, 2 * BlockSz + 1}

SwInput(n) == [k \in 1..n |-> k - 1]

SwInit ==
    /\ old = FALSE
    /\ files = <<>>
    /\ fileIdx = 1
    /\ pc = "exit"
    /\ exitCode = 0
    /\ failure = "none"
    /\ inner = <<>>
    /\ rd = NewReader(<<>>)
    /\ count = 0
    /\ saved = <<>>
    /\ errors = <<>>
    /\ ktxIn = <<>>
    /\ \E w \in SwDims, h \in SwDims, st \in KnownSubTypes :
          sw = [pc |-> "ready", width |-> w, height |-> h,
                pixel_sz |-> PixelSize(st),
                input |-> SwInput(w * h * PixelSize(st)),
                pixels |-> <<>>, nread |-> 0]

\* pixels = bytearray(file_size - 5) and the loops, reading from a Reader
\* over the input
SwApply ==
    /\ sw.pc = "ready"
    /\ LET d == Deswizzle(NewReader(sw.input), sw.input, Len(sw.input),
                          sw.width, sw.height, sw.pixel_sz)
       IN  sw' = [sw EXCEPT !.pc = "done", !.pixels = d.pixels, !.nread = d.r.nread]
    /\ UNCHANGED <<files, old, fileIdx, pc, exitCode, failure, inner, rd, count,
                   saved, errors, ktxIn>>

SwNext == SwApply

SwSpec == SwInit /\ [][SwNext]_vars

\* ------------------------------------------------------------ streams, for the properties
\* the SC file process_sc is walking
Cur == files[fileIdx]

PrologueLen == IF old THEN Len(Prologue) ELSE 0

ChunkTag(c) == c[1]

ChunkSize(c) == IntFromBytes(SubSeq(c, 2, 5))

\* the offsets in the inner stream at which the chunks of f start, and its end
Boundaries(f) ==
    {PrologueLen + Len(Concat(SubSeq(f.chunks, 1, k))) : k \in 0..Len(f.chunks)}

\* the offset at which the last chunk of f starts
LastStart(f) ==
    PrologueLen + Len(Concat(SubSeq(f.chunks, 1, Len(f.chunks) - 1)))

\* {tag: u8, size: u32_le, body: bytes[size]} with a recognized tag
NominalChunk(c) == ChunkTag(c) \in KnownTags /\ Len(c) = 5 + ChunkSize(c)

NominalStream(f) ==
    f.cut = 0 /\ \A i \in 1..Len(f.chunks) : NominalChunk(f.chunks[i])

\* a nominal chunk whose size is the number of bytes its tag's branch reads
LaidOutChunk(c) ==
    LET body == SubSeq(c, 6, Len(c))
        th   == TextureHeader(NewReader(body), body)
    IN  /\ NominalChunk(c)
        /\ \/ ChunkSize(c) = 0
           \/ ChunkTag(c) \in {12, 45, 49}
           \/ ChunkTag(c) = 8 /\ ChunkSize(c) = 24
           \/ ChunkTag(c) = 47 /\ ChunkSize(c) = 6 + body[1]
           \/ ChunkTag(c) \in {1, 24} /\ ChunkSize(c) >= 5
           \/ /\ ChunkTag(c) \in {27, 28}
              /\ ChunkSize(c) >= 5
              /\ th.sub_type \in KnownSubTypes
              /\ ChunkSize(c) - 5 = th.width * th.height * PixelSize(th.sub_type)

LaidOutStream(f) ==
    f.cut = 0 /\ \A i \in 1..Len(f.chunks) : LaidOutChunk(f.chunks[i])

\* a stream of laid-out chunks (a chunk of an unknown tag among them) that
\* ends inside its last chunk, which is a sentinel or has tag 8, 12, 49 or
\* an unknown tag
SkippedTags == {8, 12, 49}

TruncatedStream(f) ==
    /\ f.cut > 0
    /\ \A i \in 1..Len(f.chunks) :
          \/ LaidOutChunk(f.chunks[i])
          \/ /\ ChunkTag(f.chunks[i]) \notin KnownTags
             /\ Len(f.chunks[i]) = 5 + ChunkSize(f.chunks[i])

TruncatedInSkipped(f) ==
    /\ TruncatedStream(f)
    /\ LET c == f.chunks[Len(f.chunks)]
       IN  \/ ChunkSize(c) = 0
           \/ ChunkTag(c) \in SkippedTags
           \/ ChunkTag(c) \notin KnownTags

\* the head of the loop is at an inline texture chunk
AtInline == Walking /\ Hd.size # 0 /\ Hd.tag \in {1, 24, 27, 28}

\* the output indices of the file being walked, in the order they were used
IndexedNames ==
    SelectSeq(saved, LAMBDA e : e.kind = "indexed" /\ e.file = fileIdx)

\* ------------------------------------------------------------ C1
UnknownChunk == Chunk(99, 3, <<120, 121, 122>>)

ValidTexture == Texture(1, 9, 0, 1, 1, <<255, 0, 0, 255>>)

\* C1: a chunk with an unknown tag and a non-zero size is not fatal: the step
\* logs one error, advances the cursor by the 5 header bytes and size, saves
\* no image and stays in the loop; an unknown chunk followed by a valid tag-1
\* chunk ends with exactly one image and one logged error.
C1_UnknownTagSkipped ==
    /\ [][(Walking /\ Hd.size # 0 /\ Hd.tag \notin KnownTags)
            => /\ errors' = Append(errors, Hd.tag)
               /\ rd'.nread = rd.nread + 5 + Hd.size
               /\ rd'.left = rd.left - 5 - Hd.size
               /\ saved' = saved
               /\ count' = count
               /\ pc' = "walk"
               /\ failure' = "none"]_vars
    /\ []((/\ pc = "exit"
           /\ Len(files) = 1
           /\ files[1].chunks = <<UnknownChunk, ValidTexture>>
           /\ files[1].cut = 0)
            => /\ exitCode = 0
               /\ errors = <<99>>
               /\ saved = <<[file |-> 1, kind |-> "indexed", idx |-> 0]>>)

C1_Witness ==
    /\ pc = "exit"
    /\ files[1].chunks = <<UnknownChunk, ValidTexture>>
    /\ files[1].cut = 0
    /\ errors = <<99>>
    /\ Len(saved) = 1

\* ------------------------------------------------------------ C2
\* C2 as claimed: on a stream of nominal chunks every iteration starts on a
\* chunk's tag byte, and at the loop's exit nothing remains and the consumed
\* count is the stream's length.
C2_NominalStreamConsumed ==
    (pc = "walk" /\ NominalStream(Cur))
        => /\ rd.pos \in Boundaries(Cur)
           /\ rd.left >= 0
           /\ ReaderLen(rd) = 0 => (rd.left = 0 /\ rd.nread = Len(inner))

\* C2, amended: on a stream of chunks laid out as their tag's branch reads
\* them, every iteration starts on a chunk's tag byte with the counts in step
\* with the position, and at the loop's exit nothing remains and the consumed
\* count is the stream's length.
C2_LaidOutStreamConsumed ==
    (pc = "walk" /\ LaidOutStream(Cur))
        => /\ rd.pos \in Boundaries(Cur)
           /\ rd.nread = rd.pos
           /\ rd.left = Len(inner) - rd.pos
           /\ ReaderLen(rd) = 0 => (rd.left = 0 /\ rd.nread = Len(inner))

C2_Witness ==
    /\ pc = "walk"
    /\ LaidOutStream(Cur)
    /\ Len(Cur.chunks) = 2
    /\ ChunkTag(Cur.chunks[1]) = 8
    /\ ReaderLen(rd) = 0
    /\ rd.nread = Len(inner)
    /\ count = 1

C4_BatchSurvivesFailures ==
    pc = "exit" => (exitCode = 0 /\ fileIdx = Len(files) + 1)

\* ------------------------------------------------------------ C5
\* C5: an inline texture chunk with an unknown sub_type ends only that
\* chunk: no image is saved for it and the walk goes on.
C5_UnknownSubTypeSkipsChunk ==
    [][(AtInline /\ TextureHeader(Hd.r, inner).sub_type \notin KnownSubTypes)
         => /\ pc' = "walk"
            /\ failure' = "none"
            /\ saved' = saved]_vars

\* ------------------------------------------------------------ C6
\* C6: on a stream of laid-out chunks, a tag-45 chunk hands process_ktx
\* exactly the bytes its second size declares, and the cursor is left right
\* after them.
C6_KtxBlobIsItsDeclaredSize ==
    [][(Walking /\ Hd.size # 0 /\ Hd.tag = 45 /\ LaidOutStream(Cur))
         => /\ Len(ktxIn') = Len(ktxIn) + 1
            /\ ktxIn'[Len(ktxIn')].bytes = ktxIn'[Len(ktxIn')].declared
            /\ rd'.pos = ktxIn'[Len(ktxIn')].from + ktxIn'[Len(ktxIn')].declared]_vars

\* ------------------------------------------------------------ C7
\* C7: the output index starts at 0 with each walk; the names saved from
\* inline chunks carry the indices 0, 1, ..., count - 1 in that order; and a
\* step that saves no inline image (a sentinel, an unknown tag, tags 8, 12,
\* 45, 47, 49) leaves the index as it is.
C7_IndexCountsInlineImages ==
    /\ [](pc = "walk"
            => /\ Len(IndexedNames) = count
               /\ \A k \in 1..count : IndexedNames[k].idx = k - 1)
    /\ [][(pc = "loop" /\ pc' = "walk") => count' = 0]_vars
    /\ [][(pc = "walk" /\ ~AtInline) => count' = count]_vars
    /\ [][AtInline => \/ count' = count /\ saved' = saved
                      \/ /\ count' = count + 1
                         /\ saved' = Append(saved, [file |-> fileIdx,
                                                    kind |-> "indexed",
                                                    idx |-> count])]_vars

C7_Witness ==
    /\ pc = "walk"
    /\ count = 2
    /\ Len(saved) = 2
    /\ saved[2] = [file |-> 1, kind |-> "indexed", idx |-> 1]

\* ------------------------------------------------------------ C8
SwDone == sw.pc = "done"

\* the number of input bytes the loops have read before the run of row y in
\* the super-block at (bx, by)
SwReadBefore(bx, by, y) ==
    by * sw.width * sw.pixel_sz
        + bx * Min(BlockSz, sw.height - by) * sw.pixel_sz
        + (y - by) * Min(BlockSz, sw.width - bx) * sw.pixel_sz

SwOrigins(side) == {o \in 0..(side - 1) : o % BlockSz = 0}

\* the inverse of the deswizzle: the raster's runs gathered super-block by
\* super-block, y-major then x-major
Reswizzle(raster, width, height, pixel_sz) ==
    Concat([b \in 1..((height + BlockSz - 1) \div BlockSz) |->
      Concat([c \in 1..((width + BlockSz - 1) \div BlockSz) |->
        Concat([r \in 1..Min(BlockSz, height - BlockSz * (b - 1)) |->
          LET y   == BlockSz * (b - 1) + r - 1
              bx  == BlockSz * (c - 1)
              off == (bx + y * width) * pixel_sz
          IN  SubSeq(raster, off + 1,
                     off + Min(BlockSz, width - bx) * pixel_sz)])])])

\* C8: on a buffer of width * height * pixel_sz bytes the deswizzle reads the
\* whole input in order and writes every output byte exactly once, the run of
\* row y of the super-block at (bx, by) going to (bx + y * width) * pixel_sz;
\* the reswizzle of its output is the input.
C8_DeswizzleIsBijection ==
    SwDone =>
        LET n == Len(sw.input)
        IN  /\ n = sw.width * sw.height * sw.pixel_sz
            /\ sw.nread = n
            /\ Len(sw.pixels) = n
            /\ {sw.pixels[j] : j \in 1..n} = 0..(n - 1)
            /\ \A by \in SwOrigins(sw.height), bx \in SwOrigins(sw.width) :
                 \A y \in by..(Min(by + BlockSz, sw.height) - 1) :
                   \A t \in 0..(Min(BlockSz, sw.width - bx) * sw.pixel_sz - 1) :
                     sw.pixels[(bx + y * sw.width) * sw.pixel_sz + t + 1]
                        = SwReadBefore(bx, by, y) + t
            /\ Reswizzle(sw.pixels, sw.width, sw.height, sw.pixel_sz) = sw.input

C8_Witness ==
    /\ SwDone
    /\ sw.width = BlockSz + 1
    /\ sw.height = BlockSz + 1
    /\ sw.pixel_sz = 2
    /\ sw.pixels[2 * BlockSz + 1] = 2 * BlockSz * BlockSz

\* ------------------------------------------------------------ C9
\* C9, for the sub-types create_image decodes with its own loops: a pixel
\* buffer (the size - 5 bytes read for tags 1 and 24, the bytearray of
\* size - 5 bytes for tags 27 and 28) of another length than
\* width * height * bytes_per_pixel ends in a failure and saves no image.
C9_WrongSizeRejected ==
    [][(/\ AtInline
        /\ Hd.size >= 5
        /\ LET th == TextureHeader(Hd.r, inner)
               n  == IF Hd.tag \in {1, 24}
                     THEN Len(Read(th.r, inner, Hd.size - 5).out)
                     ELSE Hd.size - 5
           IN  /\ th.sub_type \in LoopSubTypes
               /\ th.width > 0 /\ th.height > 0
               /\ n # Times(Times(th.width, th.height), PixelSize(th.sub_type)))
         => /\ saved' = saved
            /\ failure' = "pixels"]_vars

\* ------------------------------------------------------------ C10
\* C10: the remaining count is a natural number no larger than the stream
\* while the walk is at the head of its loop, and every iteration, whatever
\* the chunk, leaves a strictly smaller one than it found and either comes
\* back to the head of the loop or ends the process with an exception: a
\* walk over a stream of n bytes runs at most n iterations.
C10_WalkTerminates ==
    /\ [](pc = "walk" => /\ ReaderLen(rd) \in 0..Len(inner)
                         /\ rd.left <= Len(inner))
    /\ [][Walking => /\ rd'.left < rd.left
                     /\ ReaderLen(rd') < ReaderLen(rd)
                     /\ \/ pc' = "walk" /\ exitCode' = -1
                        \/ pc' = "exit" /\ exitCode' = 1]_vars

C10_Witness ==
    /\ pc = "walk"
    /\ ReaderLen(rd) = 0
    /\ Len(Cur.chunks) = 2
    /\ ChunkTag(Cur.chunks[1]) \in {1, 24}
    /\ ChunkSize(Cur.chunks[1]) \in 1..4
    /\ rd.nread > rd.pos

====
